---------------------------- MODULE Spec2Model ----------------------------
(***************************************************************************)
(* A model of src/app.py: the Flask handler run_code (POST /run), which    *)
(* validates a submission, writes it to a per-run temporary directory,     *)
(* runs it under `timeout 10s docker run ...`, removes the directory and   *)
(* classifies the completed process into a JSON response.                  *)
(*                                                                         *)
(* Text is modelled as a sequence of tokens: " " and "\n" are the          *)
(* whitespace characters, every other token is a run of non-whitespace     *)
(* characters.  A response is [status, body], body a record whose fields   *)
(* are the keys of the JSON object passed to jsonify.                      *)
(***************************************************************************)
EXTENDS Integers, Sequences, FiniteSets, TLC

\* ------------------------------------------------------------- configuration
MAX_CODE_CHARS == 5000
TIMEOUT_SECONDS == 10
MEMORY_LIMIT == "128m"
PYTHON_RUNNER_IMAGE == "safe-python-runner:latest"
\* the returncode run_code reads as "timed out" (line 88)
TIMEOUT_RETURNCODE == 124
\* the exit status GNU timeout reserves for a command it had to stop at the
\* deadline (the comment of line 87)
GNU_TIMEOUT_STATUS == 124

\* ------------------------------------------------------------------- bounds
\* longest stdout / stderr a guest writes, in tokens
MaxOut == 3
MaxErr == 2

\* ---------------------------------------------------------------- universes
\* the request handlers (Flask serves each request in its own thread)
Runs == {1, 2}
\* the values uuid.uuid4() can return
Ids == {"u1", "u2"}

NL == "\n"
Whitespace == {" ", NL}
OutChars == {"a", " ", NL}
ErrChars == {"e", " "}

SeqsUpTo(S, n) == UNION {[1..k -> S] : k \in 0..n}
OutStrings == SeqsUpTo(OutChars, MaxOut)
ErrStrings == SeqsUpTo(ErrChars, MaxErr)

\* exit statuses a guest program ends with on its own
\* (137: killed, as a guest over the memory limit is)
GuestStatuses == {0, 1, 124, 137}

\* body.get("code"): a str (its length, and whether it can be encoded as
\* UTF-8: a lone surrogate such as "\ud800" cannot), another JSON value, or
\* None when the key is absent
StrCode(n, enc) == [type |-> "str", len |-> n, enc |-> enc]
NonStrCodes == {[type |-> t, len |-> 0, enc |-> TRUE] : t \in {"int", "none"}}
CodeLens == {0, MAX_CODE_CHARS - 1, MAX_CODE_CHARS, MAX_CODE_CHARS + 1}
StrCodes == {StrCode(n, TRUE) : n \in CodeLens}
              \cup {StrCode(n, FALSE) : n \in CodeLens \ {0}}
Codes == StrCodes \cup NonStrCodes
NoCode == [type |-> "none", len |-> 0, enc |-> TRUE]

\* the request body as request.get_json(force=True) sees it
Requests == {[json |-> "malformed", code |-> NoCode],
             [json |-> "array", code |-> NoCode]}
              \cup {[json |-> "object", code |-> c] : c \in Codes}
NoRequest == [json |-> "none", code |-> NoCode]

\* a file of the workspace
NoFile == [present |-> FALSE, text |-> NoCode]
File(c) == [present |-> TRUE, text |-> c]
EmptyFile == File(StrCode(0, TRUE))

\* local `completed`: unbound (<<>>) until subprocess.run has returned
Unbound == <<>>
NoResponse == [status |-> 0, body |-> <<>>]

VARIABLES
  clients,     \* the handlers that receive a request
  pc,          \* each handler's position in run_code
  request,     \* the request body
  code,        \* local `code`
  tempdir,     \* local `tempdir` (the uuid in it)
  completed,   \* local `completed`: <<>> or <<CompletedProcess>>
  resp,        \* what run_code returned
  exc,         \* the exception that left run_code, "none" if none
  used,        \* the uuids drawn so far
  dirs,        \* the safeexec-* directories that exist
  script,      \* script.py in each of them
  expired,     \* the timeout wrapper killed the command at the deadline
  created,     \* number of directories this run created
  destroyed,   \* number of rmtree calls of this run
  invoked,     \* number of subprocess.run calls of this run
  fault,       \* the host fault this run met, "none" if none
  argv         \* the command lines this run has passed to subprocess.run

vars == <<clients, pc, request, code, tempdir, completed, resp, exc, used,
          dirs, script, expired, created, destroyed, invoked, fault, argv>>

\* --------------------------------------------------------------- str methods
RECURSIVE LStripSet(_, _)
LStripSet(s, cs) ==
  IF s # <<>> /\ Head(s) \in cs THEN LStripSet(Tail(s), cs) ELSE s

RECURSIVE RStripSet(_, _)
RStripSet(s, cs) ==
  IF s # <<>> /\ s[Len(s)] \in cs
    THEN RStripSet(SubSeq(s, 1, Len(s) - 1), cs)
    ELSE s

\* Strip that trims the right end only (rstrip for strip)
Strip_RightOnly(s) == RStripSet(s, Whitespace)

\* str.strip(): leading and trailing whitespace removed
Strip(s) == LStripSet(RStripSet(s, Whitespace), Whitespace)

\* s without its last token when that is a newline
DropOneNewline(s) ==
  IF s # <<>> /\ s[Len(s)] = NL THEN SubSeq(s, 1, Len(s) - 1) ELSE s

\* RStripNewlines that removes all trailing whitespace (rstrip() for
\* rstrip("\n"))
RStripNewlines_AllWhitespace(s) == RStripSet(s, Whitespace)

\* str.rstrip("\n"): every trailing newline removed
RStripNewlines(s) == RStripSet(s, {NL})


\* ------------------------------------------------------------ the responses
Json(status, body) == [status |-> status, body |-> body]

Keys(response) == DOMAIN response.body

\* Validate with the length check off by one (>= for >)
Validate_OffByOne(c) ==
  IF c.type # "str"
    THEN Json(400, [error |-> <<"code must be a string">>])
  ELSE IF c.len >= MAX_CODE_CHARS
    THEN Json(400, [error |-> <<"code too long (max ",
                                 ToString(MAX_CODE_CHARS), ")">>])
  ELSE NoResponse

\* lines 51-54: the response that rejects `c`, NoResponse when c is accepted
Validate(c) ==
  IF c.type # "str"
    THEN Json(400, [error |-> <<"code must be a string">>])
  ELSE IF c.len > MAX_CODE_CHARS
    THEN Json(400, [error |-> <<"code too long (max ",
                                 ToString(MAX_CODE_CHARS), ")">>])
  ELSE NoResponse

\* line 82: the tool named by a FileNotFoundError for the file `file`
MissingTool(file) == IF file = "docker" THEN "docker" ELSE "timeout"

\* line 83
ToolNotFound(file) ==
  Json(500, [error |-> <<"Required tool not found: ", MissingTool(file)>>])

\* Classify whose success response also carries an (empty) error field
Classify_ErrorOnSuccess(c) ==
  IF c.returncode = TIMEOUT_RETURNCODE
    THEN Json(400, [error |-> <<"Execution timed out after ",
                                 ToString(TIMEOUT_SECONDS), " seconds">>])
  ELSE IF c.returncode # 0
    THEN Json(400,
              [output |-> Strip(c.stdout),
               error |-> IF Strip(c.stderr) # <<>>
                           THEN Strip(c.stderr)
                           ELSE <<"container exited with code ",
                                  ToString(c.returncode)>>])
  ELSE Json(200, [output |-> RStripNewlines(c.stdout), error |-> <<>>])

\* lines 88-97: the response for a completed process
Classify(c) ==
  IF c.returncode = TIMEOUT_RETURNCODE
    THEN Json(400, [error |-> <<"Execution timed out after ",
                                 ToString(TIMEOUT_SECONDS), " seconds">>])
  ELSE IF c.returncode # 0
    THEN Json(400,
              [output |-> Strip(c.stdout),
               error |-> IF Strip(c.stderr) # <<>>
                           THEN Strip(c.stderr)
                           ELSE <<"container exited with code ",
                                  ToString(c.returncode)>>])
  ELSE Json(200, [output |-> RStripNewlines(c.stdout)])

\* what `timeout` returns (127) and writes when it cannot find the command
DockerNotFound ==
  [returncode |-> 127,
   stdout |-> <<>>,
   stderr |-> <<"timeout: failed to run command 'docker': No such file or directory", NL>>]

\* DockerCmd that mounts the workspace without ":ro"
DockerCmd_WritableMount(d) ==
  << <<"docker">>, <<"run">>, <<"--rm">>,
     <<"--network">>, <<"none">>,
     <<"--memory">>, <<MEMORY_LIMIT>>,
     <<"--pids-limit">>, <<"64">>,
     <<"--read-only">>,
     <<"--security-opt">>, <<"no-new-privileges:true">>,
     <<"--cap-drop=ALL">>,
     <<"--volume">>, <<"/tmp/safeexec-", d, ":/app">>,
     <<PYTHON_RUNNER_IMAGE>>,
     <<"python">>, <<"/app/script.py">> >>

\* lines 57-76: exec_cmd for the workspace with uuid d; each argument is the
\* sequence of the pieces its f-string joins ("/tmp" stands for
\* tempfile.gettempdir())
DockerCmd(d) ==
  << <<"docker">>, <<"run">>, <<"--rm">>,
     <<"--network">>, <<"none">>,
     <<"--memory">>, <<MEMORY_LIMIT>>,
     <<"--pids-limit">>, <<"64">>,
     <<"--read-only">>,
     <<"--security-opt">>, <<"no-new-privileges:true">>,
     <<"--cap-drop=ALL">>,
     <<"--volume">>, <<"/tmp/safeexec-", d, ":/app:ro">>,
     <<PYTHON_RUNNER_IMAGE>>,
     <<"python">>, <<"/app/script.py">> >>

ExecCmd(d) ==
  << <<"timeout">>, <<ToString(TIMEOUT_SECONDS), "s">> >> \o DockerCmd(d)

\* ------------------------------------------------------------- the inputs
\* With one request the submissions and the guest's output range over all of
\* Requests, OutStrings and ErrStrings; with two requests in flight they
\* range over a few representatives (two accepted texts, a rejected one, a
\* body that is no object; empty and non-empty output).
Concurrent == Cardinality(clients) > 1

Submissions ==
  IF Concurrent
    THEN {[json |-> "array", code |-> NoCode]}
           \cup {[json |-> "object", code |-> StrCode(n, TRUE)] :
                   n \in {0, MAX_CODE_CHARS, MAX_CODE_CHARS + 1}}
    ELSE Requests

Stdouts == IF Concurrent THEN {<<>>, <<"a", NL>>} ELSE OutStrings
Stderrs == IF Concurrent THEN {<<>>, <<"e">>} ELSE ErrStrings

\* Uuid4 that can return a value again (a fixed or guessable run_id)
Uuid4_Repeating == Ids

\* uuid.uuid4() (line 56): a value no earlier call returned
Uuid4 == Ids \ used

\* ------------------------------------------------------------ the file system
\* shutil.rmtree(d, ignore_errors=True): d and what it holds are removed, or,
\* on a failure, left as they are; no exception either way
Rmtree(d, ok) ==
  /\ dirs' = IF ok THEN dirs \ {d} ELSE dirs
  /\ script' = IF ok THEN [script EXCEPT ![d] = NoFile] ELSE script

\* ---------------------------------------------------------------- run_code
Raise(r, e) ==
  /\ pc' = [pc EXCEPT ![r] = "raised"]
  /\ exc' = [exc EXCEPT ![r] = e]

Fault(r, f) == fault' = [fault EXCEPT ![r] = f]

Return(r, response) ==
  /\ pc' = [pc EXCEPT ![r] = "done"]
  /\ resp' = [resp EXCEPT ![r] = response]

\* Receive of a server that handles one request at a time (threaded=False)
Receive_Serialized(r) ==
  /\ r \in clients
  /\ pc[r] = "idle"
  /\ \A o \in Runs \ {r} : pc[o] \in {"idle", "done", "raised"}
  /\ \E q \in Submissions : request' = [request EXCEPT ![r] = q]
  /\ pc' = [pc EXCEPT ![r] = "validate"]
  /\ UNCHANGED <<clients, code, tempdir, completed, resp, exc, used, dirs,
                 script, expired, created, destroyed, invoked, fault, argv>>

\* a POST /run arrives
Receive(r) ==
  /\ r \in clients
  /\ pc[r] = "idle"
  /\ \E q \in Submissions : request' = [request EXCEPT ![r] = q]
  /\ pc' = [pc EXCEPT ![r] = "validate"]
  /\ UNCHANGED <<clients, code, tempdir, completed, resp, exc, used, dirs,
                 script, expired, created, destroyed, invoked, fault, argv>>

\* lines 49-54
ValidateRequest(r) ==
  /\ pc[r] = "validate"
  /\ \/ /\ request[r].json = "malformed"
        /\ Raise(r, "BadRequest")
        /\ UNCHANGED <<code, resp>>
     \/ /\ request[r].json = "array"
        /\ Raise(r, "AttributeError")
        /\ UNCHANGED <<code, resp>>
     \/ /\ request[r].json = "object"
        /\ code' = [code EXCEPT ![r] = request[r].code]
        /\ IF Validate(request[r].code) # NoResponse
             THEN Return(r, Validate(request[r].code))
             ELSE /\ pc' = [pc EXCEPT ![r] = "mkdir"]
                  /\ UNCHANGED resp
        /\ UNCHANGED exc
  /\ UNCHANGED <<clients, request, tempdir, completed, used, dirs, script,
                 expired, created, destroyed, invoked, fault, argv>>

\* lines 56-58: a fresh uuid, and os.makedirs(tempdir, exist_ok=True)
MakeWorkspace(r) ==
  /\ pc[r] = "mkdir"
  /\ \E u \in Uuid4 :
       /\ used' = used \cup {u}
       /\ tempdir' = [tempdir EXCEPT ![r] = u]
       /\ \/ /\ dirs' = dirs \cup {u}
             /\ created' = [created EXCEPT ![r] = @ + 1]
             /\ pc' = [pc EXCEPT ![r] = "write"]
             /\ UNCHANGED <<exc, fault>>
          \/ \* the directory cannot be created
             /\ Raise(r, "OSError")
             /\ Fault(r, "mkdir")
             /\ UNCHANGED <<dirs, created>>
  /\ UNCHANGED <<clients, request, code, completed, resp, script, expired,
                 destroyed, invoked, argv>>

\* lines 59-61: open(script_path, "w", encoding="utf-8") and f.write(code)
WriteScript(r) ==
  /\ pc[r] = "write"
  /\ \/ \* open fails
        /\ Raise(r, "OSError")
        /\ Fault(r, "open")
        /\ UNCHANGED script
     \/ \* the file is opened (and truncated); the text cannot be encoded
        /\ ~code[r].enc
        /\ script' = [script EXCEPT ![tempdir[r]] = EmptyFile]
        /\ Raise(r, "UnicodeEncodeError")
        /\ UNCHANGED fault
     \/ \* the file is opened; the write fails (disk full)
        /\ code[r].enc
        /\ script' = [script EXCEPT ![tempdir[r]] = EmptyFile]
        /\ Raise(r, "OSError")
        /\ Fault(r, "write")
     \/ /\ code[r].enc
        /\ script' = [script EXCEPT ![tempdir[r]] = File(code[r])]
        /\ pc' = [pc EXCEPT ![r] = "launch"]
        /\ UNCHANGED <<exc, fault>>
  /\ UNCHANGED <<clients, request, code, tempdir, completed, resp, used,
                 dirs, expired, created, destroyed, invoked, argv>>

\* lines 63-79: subprocess.run starts exec_cmd, whose first word is "timeout"
Launch(r) ==
  /\ pc[r] = "launch"
  /\ invoked' = [invoked EXCEPT ![r] = @ + 1]
  /\ argv' = [argv EXCEPT ![r] = Append(@, ExecCmd(tempdir[r]))]
  /\ \/ \* no `timeout` on the PATH: FileNotFoundError, caught at line 80
        /\ pc' = [pc EXCEPT ![r] = "except"]
        /\ Fault(r, "timeout missing")
        /\ UNCHANGED exc
     \/ \* `timeout` cannot be executed: an OSError that line 80 does not catch
        /\ Raise(r, "PermissionError")
        /\ Fault(r, "timeout not executable")
     \/ /\ pc' = [pc EXCEPT ![r] = "wait"]
        /\ UNCHANGED <<exc, fault>>
  /\ UNCHANGED <<clients, request, code, tempdir, completed, resp, used,
                 dirs, script, expired, created, destroyed>>

\* line 79, text=True: the captured bytes are decoded, which raises
\* UnicodeDecodeError when the guest wrote bytes that are not valid text
Communicate(r, returncode, out, err, decodable) ==
  IF decodable
    THEN /\ completed' = [completed EXCEPT ![r] =
              <<[returncode |-> returncode, stdout |-> out, stderr |-> err]>>]
         /\ pc' = [pc EXCEPT ![r] = "rmtree"]
         /\ UNCHANGED exc
    ELSE /\ Raise(r, "UnicodeDecodeError")
         /\ UNCHANGED completed

\* line 79: the command ends before the deadline; `timeout` passes its exit
\* status on, that of `docker run` being the guest's
ProcessExits(r) ==
  /\ pc[r] = "wait"
  /\ \/ \* no `docker` on the PATH: `timeout` itself fails
        /\ Communicate(r, DockerNotFound.returncode, DockerNotFound.stdout,
                       DockerNotFound.stderr, TRUE)
        /\ Fault(r, "docker missing")
     \/ /\ \E rc \in GuestStatuses, out \in Stdouts, err \in Stderrs :
             Communicate(r, rc, out, err, TRUE)
        /\ UNCHANGED fault
     \/ /\ \E rc \in GuestStatuses : Communicate(r, rc, <<>>, <<>>, FALSE)
        /\ UNCHANGED fault
  /\ UNCHANGED <<clients, request, code, tempdir, resp, used, dirs, script,
                 expired, created, destroyed, invoked, argv>>

\* line 79: the guest is still running after TIMEOUT_SECONDS; `timeout` stops
\* the command and returns its reserved status; what the guest had written is
\* captured
DeadlineExpires(r) ==
  /\ pc[r] = "wait"
  /\ expired' = [expired EXCEPT ![r] = TRUE]
  /\ \/ \E out \in Stdouts, err \in Stderrs :
          Communicate(r, GNU_TIMEOUT_STATUS, out, err, TRUE)
     \/ Communicate(r, GNU_TIMEOUT_STATUS, <<>>, <<>>, FALSE)
  /\ UNCHANGED <<clients, request, code, tempdir, resp, used, dirs, script,
                 created, destroyed, invoked, fault, argv>>

\* line 76: `timeout 10s` is given no --kill-after, so at the deadline it
\* sends SIGTERM once and goes on waiting; a command that does not end on
\* SIGTERM (python as PID 1 of the container has no handler for it) goes on
\* running, and subprocess.run, which is given no timeout, goes on waiting
TermIgnored(r) ==
  /\ pc[r] = "wait"
  /\ expired' = [expired EXCEPT ![r] = TRUE]
  /\ pc' = [pc EXCEPT ![r] = "termed"]
  /\ UNCHANGED <<clients, request, code, tempdir, completed, resp, exc,
                 used, dirs, script, created, destroyed, invoked, fault,
                 argv>>

\* line 79: the guest ends by itself after the deadline; `timeout` returns
\* its reserved status
ExitsAfterTerm(r) ==
  /\ pc[r] = "termed"
  /\ \/ \E out \in Stdouts, err \in Stderrs :
          Communicate(r, GNU_TIMEOUT_STATUS, out, err, TRUE)
     \/ Communicate(r, GNU_TIMEOUT_STATUS, <<>>, <<>>, FALSE)
  /\ UNCHANGED <<clients, request, code, tempdir, resp, used, dirs, script,
                 expired, created, destroyed, invoked, fault, argv>>

\* line 81
RmtreeOnMissingTool(r) ==
  /\ pc[r] = "except"
  /\ \E ok \in BOOLEAN : Rmtree(tempdir[r], ok)
  /\ destroyed' = [destroyed EXCEPT ![r] = @ + 1]
  /\ pc' = [pc EXCEPT ![r] = "notfound"]
  /\ UNCHANGED <<clients, request, code, tempdir, completed, resp, exc,
                 used, expired, created, invoked, fault, argv>>

\* lines 82-83: str(e) names the file that was not found, exec_cmd[0]
ReturnToolNotFound(r) ==
  /\ pc[r] = "notfound"
  /\ Return(r, ToolNotFound("timeout"))
  /\ UNCHANGED <<clients, request, code, tempdir, completed, exc, used,
                 dirs, script, expired, created, destroyed, invoked, fault, argv>>

\* RmtreeAfterRun without ignore_errors=True: a failed removal raises
RmtreeAfterRun_Propagating(r) ==
  /\ pc[r] = "rmtree"
  /\ destroyed' = [destroyed EXCEPT ![r] = @ + 1]
  /\ \/ /\ Rmtree(tempdir[r], TRUE)
        /\ pc' = [pc EXCEPT ![r] = "classify"]
        /\ UNCHANGED exc
     \/ /\ Rmtree(tempdir[r], FALSE)
        /\ Raise(r, "OSError")
  /\ UNCHANGED <<clients, request, code, tempdir, completed, resp,
                 used, expired, created, invoked, fault, argv>>

\* line 85
RmtreeAfterRun(r) ==
  /\ pc[r] = "rmtree"
  /\ \E ok \in BOOLEAN : Rmtree(tempdir[r], ok)
  /\ destroyed' = [destroyed EXCEPT ![r] = @ + 1]
  /\ pc' = [pc EXCEPT ![r] = "classify"]
  /\ UNCHANGED <<clients, request, code, tempdir, completed, resp, exc,
                 used, expired, created, invoked, fault, argv>>

\* ReturnClassified that also puts the run's identifier in the response
ReturnClassified_WithRunId(r) ==
  /\ pc[r] = "classify"
  /\ LET c == Classify(completed[r][1])
     IN Return(r, Json(c.status,
                       [k \in Keys(c) \cup {"run_id"} |->
                          IF k = "run_id" THEN <<tempdir[r]>> ELSE c.body[k]]))
  /\ UNCHANGED <<clients, request, code, tempdir, completed, exc, used,
                 dirs, script, expired, created, destroyed, invoked, fault,
                 argv>>

\* lines 88-97
ReturnClassified(r) ==
  /\ pc[r] = "classify"
  /\ Return(r, Classify(completed[r][1]))
  /\ UNCHANGED <<clients, request, code, tempdir, completed, exc, used,
                 dirs, script, expired, created, destroyed, invoked, fault, argv>>

\* ------------------------------------------------------------ specification
InitRun ==
  /\ pc = [r \in Runs |-> "idle"]
  /\ request = [r \in Runs |-> NoRequest]
  /\ code = [r \in Runs |-> NoCode]
  /\ tempdir = [r \in Runs |-> "none"]
  /\ completed = [r \in Runs |-> Unbound]
  /\ resp = [r \in Runs |-> NoResponse]
  /\ exc = [r \in Runs |-> "none"]
  /\ used = {}
  /\ dirs = {}
  /\ script = [u \in Ids |-> NoFile]
  /\ expired = [r \in Runs |-> FALSE]
  /\ created = [r \in Runs |-> 0]
  /\ destroyed = [r \in Runs |-> 0]
  /\ invoked = [r \in Runs |-> 0]
  /\ fault = [r \in Runs |-> "none"]
  /\ argv = [r \in Runs |-> <<>>]

\* one request
Init == clients = {1} /\ InitRun

Next ==
  \E r \in Runs :
    \/ Receive(r)
    \/ ValidateRequest(r)
    \/ MakeWorkspace(r)
    \/ WriteScript(r)
    \/ Launch(r)
    \/ ProcessExits(r)
    \/ DeadlineExpires(r)
    \/ TermIgnored(r)
    \/ ExitsAfterTerm(r)
    \/ RmtreeOnMissingTool(r)
    \/ ReturnToolNotFound(r)
    \/ RmtreeAfterRun(r)
    \/ ReturnClassified(r)

\* a step of the handler r
Step(r) ==
  \/ Receive(r)
  \/ ValidateRequest(r)
  \/ MakeWorkspace(r)
  \/ WriteScript(r)
  \/ Launch(r)
  \/ ProcessExits(r)
  \/ DeadlineExpires(r)
  \/ TermIgnored(r)
  \/ ExitsAfterTerm(r)
  \/ RmtreeOnMissingTool(r)
  \/ ReturnToolNotFound(r)
  \/ RmtreeAfterRun(r)
  \/ ReturnClassified(r)

Spec == Init /\ [][Next]_vars

\* two requests, handled concurrently
InitConc == clients = Runs /\ InitRun

SpecConc == InitConc /\ [][Next]_vars

\* ------------------------------------------------------------------- shapes
Finished(r) == pc[r] \in {"done", "raised"}

\* the Outcome a response of run_code stands for (lines 52, 54, 83, 89,
\* 92-95, 97), "none" for a response of no such shape
Outcome(response) ==
  IF Keys(response) = {"output"} /\ response.status = 200
    THEN "Success"
  ELSE IF Keys(response) = {"output", "error"} /\ response.status = 400
    THEN "ProgramError"
  ELSE IF Keys(response) = {"error"} /\ response.status = 500
    THEN "InfrastructureError"
  ELSE IF Keys(response) = {"error"} /\ response.status = 400
    THEN IF response.body.error[1] = "Execution timed out after "
           THEN "Timeout"
           ELSE "ValidationError"
  ELSE "none"

\* the handler is past lines 49-54
PastValidation(r) == pc[r] \notin {"idle", "validate"}

\* a submission the spec accepts: text of at most max_code_length characters
Acceptable(q) ==
  /\ q.json = "object"
  /\ q.code.type = "str"
  /\ q.code.len <= MAX_CODE_CHARS

\* ----------------------------------------------------------------------- C1
\* C1 (as claimed): a run that has returned or raised has called destroy
\* (rmtree) exactly once for each workspace directory it created.
C1_DestroyOncePerCreate ==
  \A r \in Runs : Finished(r) => destroyed[r] = created[r]

\* ----------------------------------------------------------------------- C2
\* C2: the handler goes on to create a workspace exactly when the submission
\* is text of length <= MAX_CODE_CHARS; every other JSON-object submission is
\* answered with a validation error, with no directory made, no file written
\* and no process started; a submission of length MAX_CODE_CHARS is accepted.
C2_WorkspaceIffAcceptable ==
  \A r \in Runs :
    PastValidation(r) =>
      IF Acceptable(request[r])
        THEN /\ pc[r] = "mkdir" \/ tempdir[r] # "none"
             /\ pc[r] = "done" => Outcome(resp[r]) # "ValidationError"
        ELSE /\ created[r] = 0 /\ invoked[r] = 0 /\ tempdir[r] = "none"
             /\ \A u \in Ids : ~script[u].present
             /\ dirs = {} /\ used = {}
             /\ request[r].json = "object" =>
                  pc[r] = "done" /\ Outcome(resp[r]) = "ValidationError"

C2_Witness ==
  \E r \in Runs :
    /\ request[r].code.type = "str"
    /\ request[r].code.len = MAX_CODE_CHARS
    /\ created[r] = 1
    /\ invoked[r] = 1

\* ----------------------------------------------------------------------- C3
\* C3 (as claimed): the Timeout outcome is returned only when the timeout
\* wrapper stopped the command at the deadline; a guest that ends by itself
\* with status 124 is a ProgramError.
C3_TimeoutOnlyWhenExpired ==
  \A r \in Runs :
    pc[r] = "done" /\ Outcome(resp[r]) = "Timeout" => expired[r]

\* ----------------------------------------------------------------------- C4
\* C4 (as claimed): every run whose guest was still running at the deadline
\* ends with the Timeout outcome, whatever the guest had written: a response
\* with the timed-out message naming TIMEOUT_SECONDS and no other field.
C4_ExpiredYieldsTimeout ==
  \A r \in Runs :
    expired[r] /\ Finished(r) =>
      /\ pc[r] = "done"
      /\ resp[r] = Json(400, [error |-> <<"Execution timed out after ",
                                          ToString(TIMEOUT_SECONDS),
                                          " seconds">>])

\* ----------------------------------------------------------------------- C5
\* C5 (as claimed): a run that found `docker` or `timeout` missing ends with
\* an InfrastructureError naming the missing tool, and has called destroy
\* for the workspace it created.
C5_MissingToolIsInfrastructureError ==
  \A r \in Runs :
    Finished(r) /\ fault[r] \in {"docker missing", "timeout missing"} =>
      /\ pc[r] = "done"
      /\ Outcome(resp[r]) = "InfrastructureError"
      /\ resp[r].body.error =
           <<"Required tool not found: ",
             IF fault[r] = "docker missing" THEN "docker" ELSE "timeout">>
      /\ destroyed[r] = created[r]

\* ----------------------------------------------------------------------- C6
\* C6 (as claimed): a run whose workspace directory could not be created or
\* whose script file could not be written ends with InfrastructureError,
\* without having started the sandbox, and with no workspace left.
C6_WorkspaceFailureIsInfrastructureError ==
  \A r \in Runs :
    Finished(r) /\ fault[r] \in {"mkdir", "open", "write"} =>
      /\ pc[r] = "done"
      /\ Outcome(resp[r]) = "InfrastructureError"
      /\ invoked[r] = 0
      /\ tempdir[r] \notin dirs

\* ----------------------------------------------------------------------- C7
\* C7 (as claimed): every invocation of run_code ends by returning one
\* classified Outcome; no exception leaves the handler.  (The BadRequest that
\* get_json raises for a body that is not JSON at all is Flask's own 400
\* answer and is not counted against the claim.)
C7_NoExceptionEscapes ==
  \A r \in Runs :
    Finished(r) =>
      \/ pc[r] = "done" /\ Outcome(resp[r]) # "none"
      \/ exc[r] = "BadRequest"

\* ----------------------------------------------------------------------- C8
\* the run got its response from the completed process (lines 88-97)
Classified(r) == pc[r] = "done" /\ completed[r] # Unbound

\* C8 (as claimed): on exit status zero the response is Success and its
\* output is stdout with exactly one trailing newline removed, if there is
\* one, and nothing else altered.
C8_OneTrailingNewlineRemoved ==
  \A r \in Runs :
    Classified(r) /\ completed[r][1].returncode = 0 =>
      /\ Outcome(resp[r]) = "Success"
      /\ resp[r].body.output = DropOneNewline(completed[r][1].stdout)

\* t is s with all its trailing newlines removed and nothing else altered:
\* a prefix of s that does not end in a newline, the rest of s being
\* newlines only
IsWithoutTrailingNewlines(t, s) ==
  /\ Len(t) <= Len(s)
  /\ t = SubSeq(s, 1, Len(t))
  /\ \A i \in (Len(t) + 1)..Len(s) : s[i] = NL
  /\ t # <<>> => t[Len(t)] # NL

\* C8 (amended): on exit status zero the response is Success and its output
\* is stdout with every trailing newline removed and nothing else altered
\* (leading whitespace and trailing blanks are kept).
C8_AllTrailingNewlinesRemoved ==
  \A r \in Runs :
    Classified(r) /\ completed[r][1].returncode = 0 =>
      /\ Outcome(resp[r]) = "Success"
      /\ IsWithoutTrailingNewlines(resp[r].body.output, completed[r][1].stdout)

\* a Success whose stdout began with a blank and ended in two newlines
C8_Witness ==
  \E r \in Runs :
    /\ Classified(r)
    /\ completed[r][1].returncode = 0
    /\ completed[r][1].stdout = <<" ", NL, NL>>
    /\ resp[r].body.output = <<" ">>

\* ----------------------------------------------------------------------- C9
\* t is s trimmed of surrounding whitespace: s is whitespace, then t, then
\* whitespace, and t neither starts nor ends with whitespace
IsTrimOf(t, s) ==
  /\ \E i \in 0..Len(s) :
       /\ i + Len(t) <= Len(s)
       /\ t = SubSeq(s, i + 1, i + Len(t))
       /\ \A k \in 1..i : s[k] \in Whitespace
       /\ \A k \in (i + Len(t) + 1)..Len(s) : s[k] \in Whitespace
  /\ t # <<>> => t[1] \notin Whitespace /\ t[Len(t)] \notin Whitespace

\* C9: on a nonzero exit status other than the timeout status the response
\* is ProgramError: output is stdout trimmed of surrounding whitespace, error
\* is stderr trimmed of surrounding whitespace when that is not empty, and
\* otherwise a message that names the exit status.
C9_ProgramError ==
  \A r \in Runs :
    Classified(r) /\ completed[r][1].returncode \notin {0, GNU_TIMEOUT_STATUS} =>
      /\ Outcome(resp[r]) = "ProgramError"
      /\ IsTrimOf(resp[r].body.output, completed[r][1].stdout)
      /\ IF \E i \in 1..Len(completed[r][1].stderr) :
              completed[r][1].stderr[i] \notin Whitespace
           THEN IsTrimOf(resp[r].body.error, completed[r][1].stderr)
           ELSE resp[r].body.error =
                  <<"container exited with code ",
                    ToString(completed[r][1].returncode)>>

\* a ProgramError with whitespace around stdout and a stderr of blanks only
C9_Witness ==
  \E r \in Runs :
    /\ Classified(r)
    /\ completed[r][1].returncode = 137
    /\ completed[r][1].stdout = <<" ", "a", NL>>
    /\ completed[r][1].stderr = <<" ">>
    /\ resp[r].body.output = <<"a">>
    /\ resp[r].body.error = <<"container exited with code ", "137">>

\* ---------------------------------------------------------------------- C10
\* the outcome tags a response carries: Success for a 200 with an output
\* field, Error for one with an error field
Tags(response) ==
  {t \in {"Success", "Error"} :
     \/ t = "Success" /\ response.status = 200 /\ "output" \in Keys(response)
     \/ t = "Error" /\ "error" \in Keys(response)}

\* C10: every response carries exactly one tag; a response for exit status
\* zero has the output field only; a response with an error field is a
\* validation error, ProgramError, Timeout or InfrastructureError, with an
\* error status.
C10_ExactlyOneTag ==
  \A r \in Runs :
    pc[r] = "done" =>
      /\ Cardinality(Tags(resp[r])) = 1
      /\ Outcome(resp[r]) # "none"
      /\ Classified(r) /\ completed[r][1].returncode = 0 =>
           Keys(resp[r]) = {"output"}
      /\ "error" \in Keys(resp[r]) =>
           /\ resp[r].status \in {400, 500}
           /\ Outcome(resp[r]) \in {"ValidationError", "ProgramError",
                                    "Timeout", "InfrastructureError"}

\* a Success response, which has no error field
C10_Witness ==
  \E r \in Runs :
    /\ Classified(r)
    /\ completed[r][1].returncode = 0
    /\ Tags(resp[r]) = {"Success"}

\* ---------------------------------------------------------------------- C11
\* the run is between the end of its write of script.py and the end of its
\* subprocess.run
Invoking(r) == pc[r] \in {"launch", "wait", "termed"}

\* C11: under every interleaving of two runs, the runs have different
\* workspace identifiers (hence different script paths), and a run that is
\* about to execute or is executing its script finds its directory in place
\* and in script.py the text it wrote: no other run has overwritten the
\* script or removed the directory.
C11_DisjointWorkspaces ==
  /\ \A r1, r2 \in Runs :
       r1 # r2 /\ tempdir[r1] # "none" => tempdir[r1] # tempdir[r2]
  /\ \A r \in Runs :
       Invoking(r) =>
         /\ tempdir[r] \in dirs
         /\ script[tempdir[r]] = File(code[r])

\* one run is executing its script while the other, which wrote another
\* text, has removed its own workspace
C11_Witness ==
  \E r1, r2 \in Runs :
    /\ pc[r1] = "wait"
    /\ destroyed[r2] = 1
    /\ tempdir[r2] \notin dirs
    /\ code[r1] # code[r2]
    /\ script[tempdir[r1]] = File(code[r1])

\* ---------------------------------------------------------------------- C12
\* C12: a run never waits for another run: whatever the other run is doing
\* (waiting for its guest included), a run that was requested and has not
\* finished has its next step enabled.
C12_RunsProceedIndependently ==
  \A r \in clients : ~Finished(r) => ENABLED Step(r)

\* a run has returned Success while the other run's guest is still running
C12_Witness ==
  \E r1, r2 \in Runs :
    /\ pc[r1] = "done"
    /\ Outcome(resp[r1]) = "Success"
    /\ pc[r2] = "wait"

\* ---------------------------------------------------------------------- C13
\* the run's rmtree was called and left the directory in place
RemovalFailed(r) == destroyed[r] = 1 /\ tempdir[r] \in dirs

\* C13: a failed removal of the workspace is not surfaced and changes
\* nothing: no exception leaves the handler once rmtree was called, the run
\* whose removal failed still has its return step enabled, and of two runs
\* with the same completed process (or the same missing tool), one whose
\* removal failed and one whose removal succeeded, the responses are equal.
C13_RemovalFailureIsSilent ==
  /\ \A r \in Runs : destroyed[r] >= 1 => pc[r] # "raised"
  /\ \A r \in Runs :
       RemovalFailed(r) /\ pc[r] # "done" => ENABLED Step(r)
  /\ \A r1, r2 \in Runs :
       /\ pc[r1] = "done" /\ pc[r2] = "done"
       /\ RemovalFailed(r1)
       /\ destroyed[r2] = 1 /\ ~RemovalFailed(r2)
       /\ completed[r1] = completed[r2]
       => resp[r1] = resp[r2]

\* two runs with the same completed process have returned, the removal of
\* one having failed and that of the other not
C13_Witness ==
  \E r1, r2 \in Runs :
    /\ pc[r1] = "done" /\ pc[r2] = "done"
    /\ RemovalFailed(r1)
    /\ destroyed[r2] = 1 /\ ~RemovalFailed(r2)
    /\ completed[r1] # Unbound
    /\ completed[r1] = completed[r2]
    /\ completed[r1][1].stdout # <<>>

\* ---------------------------------------------------------------------- C14
\* the handler is inside subprocess.run, waiting for the command to end
Waiting(r) == pc[r] \in {"wait", "termed"}

\* C14 (as claimed): the host deadline forcibly ends the invocation: once
\* TIMEOUT_SECONDS have elapsed the handler is no longer waiting for the
\* command, whatever the guest does.
C14_DeadlineEndsInvocation ==
  \A r \in Runs : expired[r] => ~Waiting(r)

\* ---------------------------------------------------------------------- C15
\* C15: two runs of the same program text for which the sandbox reported
\* the same (exit status, stdout, stderr) have returned the same response,
\* tag and payload, although their run identifiers and workspace paths
\* differ and whichever of them ran first or alongside the other.
C15_OutcomeIsFunctionOfReport ==
  \A r1, r2 \in Runs :
    /\ pc[r1] = "done" /\ pc[r2] = "done"
    /\ request[r1].code = request[r2].code
    /\ completed[r1] # Unbound
    /\ completed[r1] = completed[r2]
    => /\ resp[r1] = resp[r2]
       /\ Outcome(resp[r1]) = Outcome(resp[r2])

\* two runs of the same text with the same report and different workspaces
C15_Witness ==
  \E r1, r2 \in Runs :
    /\ r1 # r2
    /\ pc[r1] = "done" /\ pc[r2] = "done"
    /\ request[r1].code = request[r2].code
    /\ completed[r1] # Unbound
    /\ completed[r1] = completed[r2]
    /\ completed[r1][1].returncode = 1
    /\ tempdir[r1] # tempdir[r2]
    /\ resp[r1] = resp[r2]

\* ---------------------------------------------------------------------- C16
\* C16 (as claimed): the status class tells host faults from caller and
\* guest faults: a response has the server-error status 500 exactly when
\* the run met a host fault (the spec's InfrastructureError: the host cannot
\* launch the isolation mechanism or manage the workspace); otherwise
\* Success has status 200 and validation errors, ProgramError and Timeout
\* have status 400.
C16_StatusTellsHostFaults ==
  \A r \in Runs :
    pc[r] = "done" =>
      /\ resp[r].status = 500 <=> fault[r] # "none"
      /\ fault[r] = "none" =>
           resp[r].status = IF Keys(resp[r]) = {"output"} THEN 200 ELSE 400

\* ---------------------------------------------------------------------- C17
\* the words of `a` before the image name: the options of `docker run`
Options(a) ==
  LET image == CHOOSE i \in 1..(Len(a) + 1) :
                 /\ i <= Len(a) => a[i] = <<PYTHON_RUNNER_IMAGE>>
                 /\ \A j \in 1..(i - 1) : a[j] # <<PYTHON_RUNNER_IMAGE>>
  IN SubSeq(a, 1, image - 1)

HasFlag(a, flag) == \E i \in 1..Len(a) : a[i] = flag

HasOption(a, flag, value) ==
  \E i \in 1..(Len(a) - 1) : a[i] = flag /\ a[i + 1] = value

\* C17: a run calls subprocess.run at most once, and each command line it
\* passes is `timeout <TIMEOUT_SECONDS>s docker run` with, before the image
\* name, the memory ceiling, the process-count ceiling, no network, a
\* read-only root file system, all capabilities dropped, no new privileges
\* and the run's own workspace mounted read-only, followed by the fixed
\* entry command; nothing in it comes from the submitted text.
C17_OneConstrainedInvocation ==
  \A r \in Runs :
    /\ invoked[r] <= 1
    /\ Len(argv[r]) = invoked[r]
    /\ \A n \in 1..Len(argv[r]) :
         LET a == argv[r][n]
             o == Options(a)
         IN /\ SubSeq(a, 1, 4) = << <<"timeout">>,
                                   <<ToString(TIMEOUT_SECONDS), "s">>,
                                   <<"docker">>, <<"run">> >>
            /\ HasOption(o, <<"--memory">>, <<MEMORY_LIMIT>>)
            /\ HasOption(o, <<"--pids-limit">>, <<"64">>)
            /\ HasOption(o, <<"--network">>, <<"none">>)
            /\ HasFlag(o, <<"--read-only">>)
            /\ HasFlag(o, <<"--cap-drop=ALL">>)
            /\ HasOption(o, <<"--security-opt">>, <<"no-new-privileges:true">>)
            /\ HasOption(o, <<"--volume">>,
                         <<"/tmp/safeexec-", tempdir[r], ":/app:ro">>)
            /\ SubSeq(a, Len(o) + 1, Len(a)) =
                 << <<PYTHON_RUNNER_IMAGE>>, <<"python">>,
                    <<"/app/script.py">> >>
            /\ Len(a) = 20

\* the sandbox was invoked for a submission of the greatest accepted length
C17_Witness ==
  \E r \in Runs :
    /\ pc[r] = "wait"
    /\ invoked[r] = 1
    /\ Len(argv[r]) = 1
    /\ code[r].len = MAX_CODE_CHARS

\* ---------------------------------------------------------------------- C18
\* script.py of run r holds the whole submitted text, in a workspace that
\* exists and that no rmtree has touched
ScriptInPlace(r) ==
  /\ tempdir[r] \in dirs
  /\ script[tempdir[r]] = File(code[r])
  /\ destroyed[r] = 0

\* the first three orderings of C18: write before invocation, workspace
\* intact during the invocation, destroy only after the invocation is over
WriteInvokeDestroyOrdered ==
  \A r \in Runs :
    /\ Invoking(r) => ScriptInPlace(r)
    /\ invoked[r] >= 1 /\ destroyed[r] = 0 => ScriptInPlace(r)
    /\ destroyed[r] >= 1 => invoked[r] = 1 /\ ~Invoking(r)

\* C18: within one run the invocation starts only after the submitted text
\* is completely written to script.py in the run's workspace, the workspace
\* exists with that content for as long as the invocation lasts, rmtree is
\* called only after the invocation returned or failed to launch, and the
\* caller gets its reply only after rmtree was called on the workspace.
C18_StepsStrictlyOrdered ==
  /\ WriteInvokeDestroyOrdered
  /\ \A r \in Runs : Finished(r) /\ created[r] = 1 => destroyed[r] >= 1

=============================================================================
